---------------------------- MODULE Spec2Model ----------------------------
(***************************************************************************)
(* Model of the section-aligned synthesis and mixdown pipeline of          *)
(* src/src/music_generator.py (generate_and_download, align_sections=True) *)
(* and of its lyric splitter (_split_lyrics_sections).                     *)
(*                                                                         *)
(* Text is a sequence of one-character strings, so that strip(),           *)
(* splitlines(), the marker test and "\n".join() are computed the way      *)
(* Python computes them.  The alphabet of the inputs is                    *)
(* { "[", "]", " ", "\n", letters }: "\n" is the only line boundary and    *)
(* " " and "\n" are the only whitespace that occur.                        *)
(* Durations are integer milliseconds, as pydub's len() reports them.      *)
(***************************************************************************)
EXTENDS Integers, Sequences, FiniteSets, TLC

VARIABLES
    lyrics,            \* argument lyrics: the text, a sequence of characters
    add_intro_outro,   \* argument add_intro_outro
    add_harmonies,     \* argument add_harmonies
    api_token,         \* whether REPLICATE_API_TOKEN is set in the environment
    sections,          \* local sections: the splitter's result
    pc,                \* position of the main thread in generate_and_download
    idx,               \* loop variable idx of enumerate(sections, start=1)
    section_outputs,   \* local section_outputs: the segments handed to stitching
    vocals_task,       \* state of vocals_future's task (generate_vocals)
    instr_task,        \* state of instrumental_future's task (generate_instrumental)
    vocal_attempts,    \* history, per section: the synthesis calls generate_vocals made
    render,            \* durations of the clips of the section being rendered
    provider_failures, \* history: the provider steps that raised
    error,             \* the exception that left generate_and_download, if any
    final_ms,          \* duration of final_mix
    output_written,    \* whether final_mix.export(output_path) has run
    submitted_for,     \* the section each future's task was submitted for
    final_fx,          \* what final_mix went through: joins, compression
    tmp_files,         \* the files present in tmpdir
    printed,           \* the progress lines printed so far
    call,              \* a function called on its own: its name and arguments
    ret                \* what that call returned

vars == << lyrics, add_intro_outro, add_harmonies, api_token, sections, pc, idx,
           section_outputs, vocals_task, instr_task, vocal_attempts,
           render, provider_failures, error, final_ms, output_written,
           submitted_for, final_fx, tmp_files, printed, call, ret >>

(***************************************************************************)
(* Strings.                                                                *)
(***************************************************************************)

\* Characters that str.strip() removes and that occur in the inputs.
IsSpace(c) == c \in {" ", "\n"}

RECURSIVE LStrip(_)
LStrip(s) ==
    IF s = << >> THEN << >>
    ELSE IF IsSpace(Head(s)) THEN LStrip(Tail(s)) ELSE s

RECURSIVE RStrip(_)
RStrip(s) ==
    IF s = << >> THEN << >>
    ELSE IF IsSpace(s[Len(s)]) THEN RStrip(SubSeq(s, 1, Len(s) - 1)) ELSE s

\* str.strip()
Strip(s) == RStrip(LStrip(s))

\* str.splitlines(): pieces between line boundaries; a trailing boundary
\* opens no further line and the empty text has no line.
RECURSIVE SplitLinesFrom(_, _, _)
SplitLinesFrom(s, cur, acc) ==
    IF s = << >> THEN (IF cur = << >> THEN acc ELSE Append(acc, cur))
    ELSE IF Head(s) = "\n" THEN SplitLinesFrom(Tail(s), << >>, Append(acc, cur))
    ELSE SplitLinesFrom(Tail(s), Append(cur, Head(s)), acc)

splitlines(s) == SplitLinesFrom(s, << >>, << >>)

\* "\n".join(lines)
RECURSIVE JoinLines(_)
JoinLines(lines) ==
    IF lines = << >> THEN << >>
    ELSE IF Len(lines) = 1 THEN lines[1]
    ELSE lines[1] \o << "\n" >> \o JoinLines(Tail(lines))

\* str.lower(), on the letters the labels of the inputs use.
LowerChar(c) ==
    CASE c = "B" -> "b"
      [] c = "C" -> "c"
      [] c = "H" -> "h"
      [] c = "I" -> "i"
      [] c = "O" -> "o"
      [] c = "P" -> "p"
      [] c = "R" -> "r"
      [] c = "S" -> "s"
      [] c = "U" -> "u"
      [] c = "V" -> "v"
      [] OTHER   -> c

lower(s) == [i \in 1..Len(s) |-> LowerChar(s[i])]

(***************************************************************************)
(* _split_lyrics_sections                                                  *)
(***************************************************************************)

\* The label of the text before the first marker: current_label = "Section"
DefaultLabel == << "S", "e", "c", "t", "i", "o", "n" >>

\* line.startswith("[") and line.endswith("]") and len(line) > 2
IsMarkerLine(line) ==
    /\ Len(line) > 2
    /\ line[1] = "["
    /\ line[Len(line)] = "]"

\* line[1:-1].strip()
MarkerLabel(line) == Strip(SubSeq(line, 2, Len(line) - 1))

\* {"label": current_label, "text": "\n".join(current_lines).strip()}
MakeSection(label, lines) == [label |-> label, text |-> Strip(JoinLines(lines))]

\* The loop state before the first line.
SplitStart == [sections |-> << >>, current_label |-> DefaultLabel, current_lines |-> << >>]

\* Faulty variant of SplitLoopBody: the marker branch appends without testing
\* current_lines, so a marker that closes no body still adds a section.
SplitLoopBodyNoGuard(st, raw) ==
    LET line == Strip(raw) IN
    IF IsMarkerLine(line)
    THEN [sections      |-> Append(st.sections, MakeSection(st.current_label, st.current_lines)),
          current_label |-> MarkerLabel(line),
          current_lines |-> << >>]
    ELSE IF line # << >>
         THEN [st EXCEPT !.current_lines = Append(@, line)]
         ELSE st

\* Faulty variant of SplitLoopBody: the body keeps the raw line, not the stripped one.
SplitLoopBodyRaw(st, raw) ==
    LET line == Strip(raw) IN
    IF IsMarkerLine(line)
    THEN [sections      |-> IF st.current_lines # << >>
                            THEN Append(st.sections, MakeSection(st.current_label, st.current_lines))
                            ELSE st.sections,
          current_label |-> MarkerLabel(line),
          current_lines |-> << >>]
    ELSE IF line # << >>
         THEN [st EXCEPT !.current_lines = Append(@, raw)]
         ELSE st

\* One iteration of "for raw in lyrics.splitlines()".
SplitLoopBody(st, raw) ==
    LET line == Strip(raw) IN
    IF IsMarkerLine(line)
    THEN [sections      |-> IF st.current_lines # << >>
                            THEN Append(st.sections, MakeSection(st.current_label, st.current_lines))
                            ELSE st.sections,
          current_label |-> MarkerLabel(line),
          current_lines |-> << >>]
    ELSE IF line # << >>
         THEN [st EXCEPT !.current_lines = Append(@, line)]
         ELSE st

RECURSIVE SplitLoop(_, _)
SplitLoop(st, lines) ==
    IF lines = << >> THEN st
    ELSE SplitLoop(SplitLoopBody(st, Head(lines)), Tail(lines))

_split_lyrics_sections(text) ==
    LET st    == SplitLoop(SplitStart, splitlines(text))
        secs  == IF st.current_lines # << >>
                 THEN Append(st.sections, MakeSection(st.current_label, st.current_lines))
                 ELSE st.sections
    IN  IF secs = << >>
        THEN << [label |-> DefaultLabel, text |-> Strip(text)] >>
        ELSE secs

(***************************************************************************)
(* Durations of the audio operations (pydub lengths, milliseconds).        *)
(***************************************************************************)

\* duration_ms=500 of the crossfade joins
CrossfadeMs == 500

\* "abs(original_ms - target_ms) < 50" of _time_stretch_to_duration
StretchToleranceMs == 50

\* atempo factors are carried in millionths ("{remaining:.6f}")
Micro == 1000000

Min(a, b) == IF a < b THEN a ELSE b
Max(a, b) == IF a > b THEN a ELSE b
Abs(a) == IF a < 0 THEN 0 - a ELSE a

\* Faulty variant of overlay: the result is cut to the shorter segment.
OverlayShorter(base_ms, other_ms) == Min(base_ms, other_ms)

\* AudioSegment.overlay: the result has the length of the segment it is
\* called on; the overlaid segment is cut where it runs past it.
overlay(base_ms, other_ms) == base_ms

\* pydub's AudioSegment[start:stop] in milliseconds: both ends are capped at
\* the length, a negative end counts from the end, and the slice is what lies
\* between them. seg[:x] is Slice(len, 0, x) and seg[x:] is Slice(len, x, len).
ParsePosition(len_ms, val) == IF val < 0 THEN len_ms - Abs(val) ELSE val

Slice(len_ms, start, stop) ==
    LET from == ParsePosition(len_ms, Min(start, len_ms))
        to   == ParsePosition(len_ms, Min(stop, len_ms))
    IN  Max(Min(to, len_ms) - Max(from, 0), 0)

\* No chain: for a ratio that is not positive the second loop of
\* _atempo_filters (remaining < 0.5, remaining /= 0.5) never ends.
NoChain == << >>

\* _atempo_filters: the chain of stage factors, in millionths.
RECURSIVE AtempoStages(_)
AtempoStages(remaining) ==
    IF remaining > 2 * Micro THEN << 2 * Micro >> \o AtempoStages(remaining \div 2)
    ELSE IF remaining < Micro \div 2
         THEN << Micro \div 2 >> \o AtempoStages(remaining * 2)
         ELSE << remaining >>

\* Faulty variant of _atempo_filters: the leftover is not reduced, one stage
\* carries the whole ratio.
AtempoSingleStage(ratio) == IF ratio <= 0 THEN NoChain ELSE << ratio >>

_atempo_filters(ratio) == IF ratio <= 0 THEN NoChain ELSE AtempoStages(ratio)

\* ffmpeg atempo: each stage divides the duration by its factor.
RECURSIVE AtempoMs(_, _)
AtempoMs(ms, chain) ==
    IF chain = << >> THEN ms
    ELSE AtempoMs((ms * Micro) \div Max(Head(chain), 1), Tail(chain))

\* Faulty variant of _time_stretch_to_duration: the length of the input is
\* used as it is, without max(..., 1).
StretchNoClamp(input_ms, target_ms) ==
    { [ok |-> FALSE, ms |-> input_ms, branch |-> "decode_error", ratio |-> 0, chain |-> << >>] }
    \cup
    LET original_ms == input_ms IN
    IF Abs(original_ms - target_ms) < StretchToleranceMs
    THEN { [ok |-> TRUE, ms |-> input_ms, branch |-> "equal", ratio |-> 0, chain |-> << >>] }
    ELSE LET ratio == (original_ms * Micro) \div Max(target_ms, 1)
             chain == _atempo_filters(ratio)
         IN  { [ok |-> TRUE,  ms |-> AtempoMs(input_ms, chain), branch |-> "atempo",
                ratio |-> ratio, chain |-> chain],
               [ok |-> FALSE, ms |-> input_ms, branch |-> "atempo",
                ratio |-> ratio, chain |-> chain] }

\* _time_stretch_to_duration: what it returns, the length of the file the
\* caller is left with (output_path on success, its own input otherwise), the
\* branch taken, and the ratio and chain handed to ffmpeg (0 and << >> when
\* ffmpeg is not run).  Decoding the input either works or raises; the ffmpeg
\* run either succeeds or raises.
_time_stretch_to_duration(input_ms, target_ms) ==
    { [ok |-> FALSE, ms |-> input_ms, branch |-> "decode_error", ratio |-> 0, chain |-> << >>] }
    \cup
    LET original_ms == Max(input_ms, 1) IN
    IF Abs(original_ms - target_ms) < StretchToleranceMs
    THEN { [ok |-> TRUE, ms |-> input_ms, branch |-> "equal", ratio |-> 0, chain |-> << >>] }
    ELSE LET ratio == (original_ms * Micro) \div Max(target_ms, 1)
             chain == _atempo_filters(ratio)
         IN  { [ok |-> TRUE,  ms |-> AtempoMs(input_ms, chain), branch |-> "atempo",
                ratio |-> ratio, chain |-> chain],
               [ok |-> FALSE, ms |-> input_ms, branch |-> "atempo",
                ratio |-> ratio, chain |-> chain] }

\* Faulty variant of loops_needed: the quotient rounded up.
LoopsCeil(instrumental_ms, target_ms) ==
    (target_ms + instrumental_ms - 1) \div instrumental_ms

\* Faulty variant of loops_needed: the quotient rounded down.
LoopsFloor(instrumental_ms, target_ms) == target_ms \div instrumental_ms

\* loops_needed = (target_ms // len(instrumental)) + 1
loops_needed(instrumental_ms, target_ms) == (target_ms \div instrumental_ms) + 1

\* What _match_instrumental_to_vocals hands back for one outcome r of the
\* stretch: the repetitions made, the lengths before and after the trim,
\* and the length of the file whose path is returned.
Matched(loops, looped, fit, r) ==
    [loops |-> loops, looped_ms |-> looped, fit_ms |-> fit, stretched |-> r.ok,
     ms |-> r.ms, branch |-> r.branch]

\* Faulty variant of _match_instrumental_to_vocals: the slice
\* instrumental[:target_ms] is left out.
MatchNoTrim(instrumental_ms, target_ms) ==
    LET loops  == IF instrumental_ms < target_ms
                  THEN loops_needed(instrumental_ms, target_ms) ELSE 1
        looped == instrumental_ms * loops
    IN  { Matched(loops, looped, looped, r) :
            r \in _time_stretch_to_duration(looped, target_ms) }

\* Faulty variant of _match_instrumental_to_vocals: the target is taken from
\* the instrumental instead of the vocals.
MatchToInstrumental(instrumental_ms, target_ms) ==
    { Matched(1, instrumental_ms, instrumental_ms, r) :
        r \in _time_stretch_to_duration(instrumental_ms, instrumental_ms) }

\* _match_instrumental_to_vocals: the instrumental repeated loops_needed
\* times when it is shorter than the vocals, cut to instrumental[:target_ms],
\* and the file whose path it returns (stretched_path when the stretch
\* reports success, temp_path otherwise).
_match_instrumental_to_vocals(instrumental_ms, target_ms) ==
    LET loops  == IF instrumental_ms < target_ms
                  THEN loops_needed(instrumental_ms, target_ms) ELSE 1
        looped == instrumental_ms * loops
        fit    == Slice(looped, 0, target_ms)
    IN  { Matched(loops, looped, fit, r) :
            r \in _time_stretch_to_duration(fit, target_ms) }

\* _mix_vocals_instrumental_paths: instrumental.overlay(vocals), compressed.
_mix_vocals_instrumental_paths(vocals_ms, instrumental_ms) ==
    overlay(instrumental_ms, vocals_ms)

\* Faulty variant of crossfade_segments: the segments are joined end to end.
CrossfadeButtJoin(seg1_ms, seg2_ms, duration_ms) == seg1_ms + seg2_ms

\* Faulty variant of crossfade_segments: a segment exactly as long as the
\* crossfade is treated as too short.
CrossfadeStrict(seg1_ms, seg2_ms, duration_ms) ==
    IF seg1_ms <= duration_ms \/ seg2_ms <= duration_ms
    THEN seg1_ms + seg2_ms
    ELSE Slice(seg1_ms, 0, -duration_ms)
         + overlay(Slice(seg1_ms, -duration_ms, seg1_ms), Slice(seg2_ms, 0, duration_ms))
         + Slice(seg2_ms, duration_ms, seg2_ms)

\* crossfade_segments: seg1 + seg2 when either is shorter than the crossfade,
\* otherwise seg1_main + seg1_tail.overlay(seg2_head) + seg2_main (the fades
\* keep the lengths).
crossfade_segments(seg1_ms, seg2_ms, duration_ms) ==
    IF seg1_ms < duration_ms \/ seg2_ms < duration_ms
    THEN seg1_ms + seg2_ms
    ELSE LET seg1_main == Slice(seg1_ms, 0, -duration_ms)
             seg1_tail == Slice(seg1_ms, -duration_ms, seg1_ms)
             seg2_head == Slice(seg2_ms, 0, duration_ms)
             seg2_main == Slice(seg2_ms, duration_ms, seg2_ms)
             crossfaded == overlay(seg1_tail, seg2_head)
         IN  seg1_main + crossfaded + seg2_main

\* final_mix = section_outputs[0]; for next_section in section_outputs[1:]: ...
RECURSIVE CrossfadeFold(_, _)
CrossfadeFold(final_mix, rest) ==
    IF rest = << >> THEN final_mix
    ELSE CrossfadeFold(crossfade_segments(final_mix, Head(rest).ms, CrossfadeMs), Tail(rest))

(***************************************************************************)
(* Inputs of the pipeline runs.                                            *)
(***************************************************************************)

\* Most stanzas of a lyric text given to a pipeline run.
MaxSections == 3

\* Durations the vocal provider may return, and durations of the clip the
\* instrumental provider's URL may resolve to (shorter than, equal to and
\* longer than a vocal; dividing it and not).
VocalDurs == { 300, 1300 }
InstrDurs == { 100, 300, 1500 }

Verse1 == << "V", "e", "r", "s", "e", " ", "1" >>
Chorus == << "C", "h", "o", "r", "u", "s" >>
Bridge == << "B", "r", "i", "d", "g", "e" >>
Verse2 == << "V", "e", "r", "s", "e", " ", "2" >>

Intro == << "I", "n", "t", "r", "o" >>
Outro == << "O", "u", "t", "r", "o" >>
Verse == << "V", "e", "r", "s", "e" >>
PreChorus == << "P", "r", "e", "-", "C", "h", "o", "r", "u", "s" >>
Hook == << "H", "o", "o", "k" >>
ChorusUpper == << "C", "H", "O", "R", "U", "S" >>

StanzaLabels == << Verse1, Chorus, Verse2, Chorus, Bridge, Chorus >>

\* Labels a one-stanza song is written with besides those of StanzaLabels.
OtherLabels == { Intro, Outro, Verse, PreChorus, Bridge, Hook, ChorusUpper }

\* "[label]\nla la\n\n"
Stanza(label) == << "[" >> \o label \o << "]", "\n", "l", "a", " ", "l", "a", "\n", "\n" >>

RECURSIVE SongText(_)
SongText(n) ==
    IF n = 0 THEN << >>
    ELSE SongText(n - 1) \o Stanza(StanzaLabels[((n - 1) % Len(StanzaLabels)) + 1])

\* The lyric of quick_test.py: [Verse 1], [Chorus], [Verse 2], [Chorus].
quick_test_lyrics == SongText(4)

\* Songs of 1..MaxSections stanzas, the empty text, a blank text, a text of
\* one unmarked line, one-stanza songs under the other labels, and the lyric
\* of quick_test.py.
PipelineLyrics ==
    { SongText(n) : n \in 0..MaxSections } \cup { << " ", "\n" >>, << "l", "a" >> }
        \cup { Stanza(l) : l \in OtherLabels } \cup { quick_test_lyrics }

(***************************************************************************)
(* generate_and_download, align_sections=True                              *)
(***************************************************************************)

NoError  == [kind |-> "none"]
(***************************************************************************)
(* Per-label processing.  What is done to a piece of audio is kept as the   *)
(* sequence of operations applied to it, in order; fractions are in         *)
(* hundredths.                                                              *)
(***************************************************************************)

\* SECTION_CONFIGS: the keys and, per key, the duration multiplier and the
\* two mixer gains in dB.
SECTION_CONFIGS ==
    [ k \in { lower(Intro), lower(Verse), lower(PreChorus),
              lower(Chorus), lower(Bridge), lower(Outro) } |->
        CASE k = lower(Intro)     -> [duration_multiplier |-> 80,  vocal_volume |-> 0,
                                      instrumental_volume |-> -5]
          [] k = lower(Verse)     -> [duration_multiplier |-> 100, vocal_volume |-> 5,
                                      instrumental_volume |-> -18]
          [] k = lower(PreChorus) -> [duration_multiplier |-> 100, vocal_volume |-> 3,
                                      instrumental_volume |-> -15]
          [] k = lower(Chorus)    -> [duration_multiplier |-> 100, vocal_volume |-> 3,
                                      instrumental_volume |-> -12]
          [] k = lower(Bridge)    -> [duration_multiplier |-> 100, vocal_volume |-> 2,
                                      instrumental_volume |-> -14]
          [] k = lower(Outro)     -> [duration_multiplier |-> 90,  vocal_volume |-> 0,
                                      instrumental_volume |-> -8] ]

\* Faulty variant of SectionConfig: the label is looked up as it is written.
SectionConfigExact(section_type) ==
    IF section_type \in DOMAIN SECTION_CONFIGS
    THEN SECTION_CONFIGS[section_type]
    ELSE SECTION_CONFIGS[lower(Verse)]

\* SECTION_CONFIGS.get(section_type.lower(), SECTION_CONFIGS["verse"])
SectionConfig(section_type) ==
    IF lower(section_type) \in DOMAIN SECTION_CONFIGS
    THEN SECTION_CONFIGS[lower(section_type)]
    ELSE SECTION_CONFIGS[lower(Verse)]

\* audio + db
Gain(fx, db) == Append(fx, [op |-> "gain", db |-> db])

add_reverb(effects, room_size, wet_mix) ==
    Append(effects, [op |-> "reverb", room_size |-> room_size, wet_mix |-> wet_mix])

add_chorus(effects, depth, rate) ==
    Append(effects, [op |-> "chorus", depth |-> depth, rate |-> rate])

add_delay(effects, delay_ms, feedback, mix) ==
    Append(effects, [op |-> "delay", delay_ms |-> delay_ms, feedback |-> feedback,
                     mix |-> mix])

\* The if/elif chain of apply_section_effects: the effects of one call.
SectionEffects(section_type) ==
    LET k == lower(section_type)
    IN  CASE k = lower(Intro)  -> add_reverb(<< >>, 30, 20)
          [] k = lower(Verse)  -> add_reverb(<< >>, 40, 25)
          [] k = lower(Chorus) -> add_chorus(add_reverb(<< >>, 60, 35), 25, 150)
          [] k = lower(Bridge) -> add_delay(add_reverb(<< >>, 50, 30), 250, 30, 20)
          [] k = lower(Outro)  -> add_reverb(<< >>, 70, 40)
          [] OTHER             -> << >>

\* apply_section_effects: one step, with the effects it applied.
apply_section_effects(fx, section_type) ==
    Append(fx, [op |-> "section_effects", effects |-> SectionEffects(section_type)])

volume_map ==
    [ k \in { lower(Intro), lower(Verse), lower(PreChorus),
              lower(Chorus), lower(Bridge), lower(Outro) } |->
        CASE k = lower(Intro)     -> -3
          [] k = lower(Verse)     -> -2
          [] k = lower(PreChorus) -> 0
          [] k = lower(Chorus)    -> 2
          [] k = lower(Bridge)    -> 0
          [] k = lower(Outro)     -> -4 ]

\* apply_dynamic_volume: audio + volume_map.get(section_type.lower(), 0)
apply_dynamic_volume(fx, section_type) ==
    Gain(fx, IF lower(section_type) \in DOMAIN volume_map
             THEN volume_map[lower(section_type)]
             ELSE 0)

\* create_harmony_layer overlaid on the result: pitch_shift(vocals, interval)
\* + volume_offset
OverlayHarmony(fx, interval, volume_offset) ==
    Append(fx, [op |-> "harmony", interval |-> interval, volume_offset |-> volume_offset])

RECURSIVE OverlayHarmonyLayers(_, _, _)
OverlayHarmonyLayers(fx, intervals, volumes) ==
    IF intervals = << >> \/ volumes = << >> THEN fx
    ELSE OverlayHarmonyLayers(OverlayHarmony(fx, Head(intervals), Head(volumes)),
                              Tail(intervals), Tail(volumes))

\* create_vocal_layers, as the processing of the vocal: the lead boosted by
\* 2 dB, the harmonies of the label, then apply_section_effects.
VocalLayers(fx, section_type, num_harmonies) ==
    LET result == Gain(fx, 2)
        layered ==
            IF lower(section_type) \in { lower(Chorus), lower(Bridge) }
            THEN OverlayHarmonyLayers(result,
                                      SubSeq(<< 3, 5, -3, 7 >>, 1, num_harmonies),
                                      SubSeq(<< -6, -8, -7, -9 >>, 1, num_harmonies))
            ELSE IF lower(section_type) = lower(Verse) /\ num_harmonies >= 1
                 THEN OverlayHarmony(result, 5, -10)
                 ELSE result
    IN  apply_section_effects(layered, section_type)

\* Faulty variant of NumHarmonies: two layers whatever the label.
NumHarmoniesTwo(section_label) == 2

\* num_harmonies = 2 if section_label.lower() == "chorus" else 1
NumHarmonies(section_label) == IF lower(section_label) = lower(Chorus) THEN 2 ELSE 1

\* Lines 527-539, as the processing of the vocal: harmonies or section
\* effects, then apply_dynamic_volume.
ProcessedVocalsFx(section_label, harmonies) ==
    apply_dynamic_volume(
        IF harmonies /\ lower(section_label) \in { lower(Chorus), lower(Bridge) }
        THEN VocalLayers(<< >>, section_label, NumHarmonies(section_label))
        ELSE apply_section_effects(<< >>, section_label),
        section_label)

\* _mix_vocals_instrumental_paths, as the processing of each input.
MixedVocalsFx(vocals_fx, section_type) ==
    Gain(vocals_fx, SectionConfig(section_type).vocal_volume)

MixedInstrumentalFx(instr_fx, section_type) ==
    Gain(instr_fx, SectionConfig(section_type).instrumental_volume)

\* intro_audio.fade_in(1000), outro_audio.fade_out(3000)
Fade(fx, direction, ms) == Append(fx, [op |-> "fade", direction |-> direction, ms |-> ms])

\* Lines 493-495: apply_section_effects(intro_audio, "intro"), fade_in(1000)
IntroFx == Fade(apply_section_effects(<< >>, lower(Intro)), "in", 1000)

\* Lines 561-563: apply_section_effects(outro_audio, "outro"), fade_out(3000)
OutroFx == Fade(apply_section_effects(<< >>, lower(Outro)), "out", 3000)

\* compress_audio(audio, threshold, ratio), threshold and ratio in tenths
compress_audio(fx, threshold, ratio) ==
    Append(fx, [op |-> "compress", threshold |-> threshold, ratio |-> ratio])

\* _mix_vocals_instrumental_paths: compress_audio(mixed, threshold=-20.0, ratio=3.0)
MixedFx == compress_audio(<< >>, -200, 30)

\* The crossfade fold and the master compression, as the processing of
\* final_mix.
Crossfaded(fx, duration_ms) == Append(fx, [op |-> "crossfade", duration_ms |-> duration_ms])

RECURSIVE CrossfadeFoldFx(_, _)
CrossfadeFoldFx(fx, rest) ==
    IF rest = << >> THEN fx
    ELSE CrossfadeFoldFx(Crossfaded(fx, CrossfadeMs), Tail(rest))

\* Faulty variant of MasterFx: the master compression is left out.
MasterFxSkipped(fx) == fx

\* final_mix = compress_audio(final_mix, threshold=-18.0, ratio=2.5)
MasterFx(fx) == compress_audio(fx, -180, 25)

\* A file of tmpdir: vocals_{idx}.mp3, vocals_processed_{idx}.mp3,
\* section_{idx}.mp3, section_{idx}_fit.mp3, section_{idx}_stretch.mp3,
\* mixed_{idx}.mp3, intro.mp3, outro.mp3.
File(name, k) == [name |-> name, idx |-> k]

\* "with tempfile.TemporaryDirectory() as tmpdir": the directory goes with
\* its files when the block is left, normally or by an exception.
TmpAfter(next_pc, files) == IF next_pc \in { "stitch", "failed" } THEN {} ELSE files

\* print(...)
Line(msg, k) == [msg |-> msg, idx |-> k]

NoRender == [vocal_ms |-> 0, processed_ms |-> 0, instr_ms |-> 0, fitted_ms |-> 0,
             vocals_fx |-> << >>, stretched |-> FALSE]

\* An exception raised by a provider call.  It is the provider's own
\* exception: it tells the call that raised (capability) and, by its
\* traceback, the statement of generate_and_download it passed through
\* (where); nothing attaches the loop's idx to it.
ProviderError(where, capability) ==
    [kind |-> "ProviderFailure", where |-> where, capability |-> capability]

\* ValueError("No sections produced audio output")
NoSectionsError == [kind |-> "NoSectionsProduced"]

Finished(task) == task \in {"done", "failed"}

Pipeline_unchanged_inputs == UNCHANGED << lyrics, add_intro_outro, add_harmonies, api_token >>

\* No step of generate_and_download touches the separately called function.
NoCall == [fn |-> "none"]
NoReturn == [fn |-> "none"]
Pipeline_unchanged_call == UNCHANGED << call, ret >>

\* The futures as they are before the first submit.
NotSubmitted == [vocals |-> 0, instrumental |-> 0]

Init ==
    /\ lyrics \in PipelineLyrics
    /\ add_intro_outro \in BOOLEAN
    /\ add_harmonies \in BOOLEAN
    /\ api_token \in BOOLEAN
    /\ sections = << >>
    /\ pc = "start"
    /\ idx = 0
    /\ section_outputs = << >>
    /\ vocals_task = "idle"
    /\ instr_task = "idle"
    /\ vocal_attempts = << >>
    /\ render = NoRender
    /\ provider_failures = {}
    /\ error = NoError
    /\ final_ms = 0
    /\ output_written = FALSE
    /\ submitted_for = NotSubmitted
    /\ final_fx = << >>
    /\ tmp_files = {}
    /\ printed = {}
    /\ call = NoCall
    /\ ret = NoReturn

\* sections = _split_lyrics_sections(lyrics); section_outputs = []
Split ==
    /\ pc = "start"
    /\ sections' = _split_lyrics_sections(lyrics)
    /\ vocal_attempts' = [k \in 1..Len(sections') |-> << >>]
    /\ idx' = 1
    /\ pc' = IF add_intro_outro THEN "intro_gen" ELSE "loop"
    /\ Pipeline_unchanged_inputs
    /\ Pipeline_unchanged_call
    /\ printed' = printed \cup { Line("enhanced", 0) }
    /\ UNCHANGED << final_fx, tmp_files >>
    /\ UNCHANGED submitted_for
    /\ UNCHANGED << section_outputs, vocals_task, instr_task, render,
                    provider_failures, error, final_ms, output_written >>

\* The run leaves generate_and_download with the exception e.
Raise(e) ==
    /\ error' = e
    /\ pc' = "failed"

\* A provider step raised: kept in the history.
Failed(where, k, capability) ==
    provider_failures' = provider_failures \cup
        { [where |-> where, idx |-> k, capability |-> capability] }

\* One entry of section_outputs: where it came from, its length, and the
\* processing its vocal and its instrumental went through, in order.
Segment(kind, k, vocal_ms, ms, vocals_fx, instr_fx, mix_fx) ==
    [kind |-> kind, idx |-> k, vocal_ms |-> vocal_ms, ms |-> ms,
     vocals_fx |-> vocals_fx, instr_fx |-> instr_fx, mix_fx |-> mix_fx]

\* intro_url = generate_instrumental(..., section_label="Intro", ...)
\* (raises ValueError without REPLICATE_API_TOKEN)
IntroGenerate ==
    /\ pc = "intro_gen"
    /\ \/ /\ api_token
          /\ pc' = "intro_fetch"
          /\ UNCHANGED << error, provider_failures >>
       \/ /\ Failed("intro", 0, "instrumental")
          /\ Raise(ProviderError("intro", "instrumental"))
    /\ Pipeline_unchanged_inputs
    /\ Pipeline_unchanged_call
    /\ printed' = printed \cup { Line("intro", 0) }
    /\ tmp_files' = TmpAfter(pc', tmp_files)
    /\ UNCHANGED final_fx
    /\ UNCHANGED submitted_for
    /\ UNCHANGED << sections, idx, section_outputs, vocals_task, instr_task,
                    vocal_attempts, render, final_ms, output_written >>

\* intro_path = _download_instrumental(...); from_mp3; apply_section_effects;
\* fade_in(1000); section_outputs.append(intro_audio)
IntroFetch ==
    /\ pc = "intro_fetch"
    /\ \/ /\ \E d \in InstrDurs :
                section_outputs' = Append(section_outputs, Segment("intro", 0, 0, d, << >>, IntroFx, << >>))
          /\ pc' = "loop"
          /\ UNCHANGED << error, provider_failures >>
       \/ /\ Failed("intro", 0, "fetch")
          /\ Raise(ProviderError("intro", "fetch"))
          /\ UNCHANGED section_outputs
    /\ Pipeline_unchanged_inputs
    /\ Pipeline_unchanged_call
    /\ tmp_files' = TmpAfter(pc', tmp_files \cup { File("intro", 0) })
    /\ UNCHANGED << final_fx, printed >>
    /\ UNCHANGED submitted_for
    /\ UNCHANGED << sections, idx, vocals_task, instr_task,
                    vocal_attempts, render, final_ms, output_written >>

\* for idx, section in enumerate(sections, start=1): if not section_text: continue
LoopSkip ==
    /\ pc = "loop"
    /\ idx <= Len(sections)
    /\ sections[idx].text = << >>
    /\ idx' = idx + 1
    /\ Pipeline_unchanged_inputs
    /\ Pipeline_unchanged_call
    /\ UNCHANGED << final_fx, tmp_files, printed >>
    /\ UNCHANGED submitted_for
    /\ UNCHANGED << sections, pc, section_outputs, vocals_task, instr_task,
                    vocal_attempts, render, provider_failures, error, final_ms,
                    output_written >>

\* The loop is exhausted.
LoopEnd ==
    /\ pc = "loop"
    /\ idx > Len(sections)
    /\ pc' = IF add_intro_outro THEN "outro_gen" ELSE "stitch"
    /\ Pipeline_unchanged_inputs
    /\ Pipeline_unchanged_call
    /\ tmp_files' = TmpAfter(pc', tmp_files)
    /\ UNCHANGED << final_fx, printed >>
    /\ UNCHANGED submitted_for
    /\ UNCHANGED << sections, idx, section_outputs, vocals_task, instr_task,
                    vocal_attempts, render, provider_failures, error, final_ms,
                    output_written >>

\* vocals_future = executor.submit(generate_vocals, ...)
SubmitVocals ==
    /\ pc = "loop"
    /\ idx <= Len(sections)
    /\ sections[idx].text # << >>
    /\ vocals_task' = "queued"
    /\ submitted_for' = [submitted_for EXCEPT !.vocals = idx]
    /\ pc' = "submit_instr"
    /\ Pipeline_unchanged_inputs
    /\ Pipeline_unchanged_call
    /\ printed' = printed \cup { Line("section", idx) }
    /\ UNCHANGED << final_fx, tmp_files >>
    /\ UNCHANGED << sections, idx, section_outputs, instr_task, vocal_attempts, render,
                    provider_failures, error, final_ms, output_written >>

\* Faulty variant of SubmitInstrumental: the task is submitted on behalf of
\* the following section.
SubmitInstrumentalNext ==
    /\ pc = "submit_instr"
    /\ instr_task' = "queued"
    /\ submitted_for' = [submitted_for EXCEPT !.instrumental = idx + 1]
    /\ pc' = "await_vocals"
    /\ Pipeline_unchanged_inputs
    /\ Pipeline_unchanged_call
    /\ UNCHANGED << final_fx, tmp_files, printed >>
    /\ UNCHANGED << sections, idx, section_outputs, vocals_task, vocal_attempts, render,
                    provider_failures, error, final_ms, output_written >>

\* Faulty variant of SubmitInstrumental: the instrumental is never handed to
\* the executor, so its future never completes.
SubmitInstrumentalForgotten ==
    /\ pc = "submit_instr"
    /\ submitted_for' = [submitted_for EXCEPT !.instrumental = idx]
    /\ pc' = "await_vocals"
    /\ Pipeline_unchanged_inputs
    /\ Pipeline_unchanged_call
    /\ UNCHANGED << final_fx, tmp_files, printed >>
    /\ UNCHANGED << sections, idx, section_outputs, vocals_task, instr_task, vocal_attempts,
                    render, provider_failures, error, final_ms, output_written >>

\* instrumental_future = executor.submit(generate_instrumental, ...)
SubmitInstrumental ==
    /\ pc = "submit_instr"
    /\ instr_task' = "queued"
    /\ submitted_for' = [submitted_for EXCEPT !.instrumental = idx]
    /\ pc' = "await_vocals"
    /\ Pipeline_unchanged_inputs
    /\ Pipeline_unchanged_call
    /\ UNCHANGED << final_fx, tmp_files, printed >>
    /\ UNCHANGED << sections, idx, section_outputs, vocals_task, vocal_attempts, render,
                    provider_failures, error, final_ms, output_written >>

Attempt(method, ok) == [method |-> method, ok |-> ok]

\* generate_vocals, first part: if os.getenv("REPLICATE_API_TOKEN"):
\* try generate_vocals_bark(...) and return, except Exception: fall through.
VocalsBark ==
    /\ vocals_task = "queued"
    /\ api_token
    /\ \/ /\ vocal_attempts' = [vocal_attempts EXCEPT ![idx] = Append(@, Attempt("bark", TRUE))]
          /\ \E t \in VocalDurs : render' = [render EXCEPT !.vocal_ms = t]
          /\ vocals_task' = "done"
       \/ /\ vocal_attempts' = [vocal_attempts EXCEPT ![idx] = Append(@, Attempt("bark", FALSE))]
          /\ vocals_task' = "fallback"
          /\ UNCHANGED render
    /\ Pipeline_unchanged_inputs
    /\ Pipeline_unchanged_call
    /\ tmp_files' = IF vocals_task' = "done"
                     THEN tmp_files \cup { File("vocals", idx) }
                     ELSE tmp_files
    /\ UNCHANGED << final_fx, printed >>
    /\ UNCHANGED submitted_for
    /\ UNCHANGED << sections, pc, idx, section_outputs, instr_task,
                    provider_failures, error, final_ms, output_written >>

\* Faulty variant of VocalsEdge: a failed Edge TTS call is tried again.
VocalsEdgeRetry ==
    /\ \/ vocals_task = "fallback"
       \/ vocals_task = "queued" /\ ~api_token
    /\ \/ /\ vocal_attempts' = [vocal_attempts EXCEPT ![idx] = Append(@, Attempt("edge", TRUE))]
          /\ \E t \in VocalDurs : render' = [render EXCEPT !.vocal_ms = t]
          /\ vocals_task' = "done"
          /\ UNCHANGED provider_failures
       \/ /\ Len(vocal_attempts[idx]) < 4
          /\ vocal_attempts' = [vocal_attempts EXCEPT ![idx] = Append(@, Attempt("edge", FALSE))]
          /\ vocals_task' = "fallback"
          /\ UNCHANGED << render, provider_failures >>
    /\ Pipeline_unchanged_inputs
    /\ Pipeline_unchanged_call
    /\ tmp_files' = IF vocals_task' = "done"
                     THEN tmp_files \cup { File("vocals", idx) }
                     ELSE tmp_files
    /\ UNCHANGED << final_fx, printed >>
    /\ UNCHANGED submitted_for
    /\ UNCHANGED << sections, pc, idx, section_outputs, instr_task,
                    error, final_ms, output_written >>

\* generate_vocals, second part (Bark failed, or no token):
\* asyncio.run(generate_vocals_async(...)); its exception leaves the task.
VocalsEdge ==
    /\ \/ vocals_task = "fallback"
       \/ vocals_task = "queued" /\ ~api_token
    /\ \/ /\ vocal_attempts' = [vocal_attempts EXCEPT ![idx] = Append(@, Attempt("edge", TRUE))]
          /\ \E t \in VocalDurs : render' = [render EXCEPT !.vocal_ms = t]
          /\ vocals_task' = "done"
          /\ UNCHANGED provider_failures
       \/ /\ vocal_attempts' = [vocal_attempts EXCEPT ![idx] = Append(@, Attempt("edge", FALSE))]
          /\ vocals_task' = "failed"
          /\ Failed("section", idx, "vocal")
          /\ UNCHANGED render
    /\ Pipeline_unchanged_inputs
    /\ Pipeline_unchanged_call
    /\ tmp_files' = IF vocals_task' = "done"
                     THEN tmp_files \cup { File("vocals", idx) }
                     ELSE tmp_files
    /\ UNCHANGED << final_fx, printed >>
    /\ UNCHANGED submitted_for
    /\ UNCHANGED << sections, pc, idx, section_outputs, instr_task,
                    error, final_ms, output_written >>

\* The task of instrumental_future: generate_instrumental(...) returns the
\* URL or raises (always, without REPLICATE_API_TOKEN).
InstrumentalRun ==
    /\ instr_task = "queued"
    /\ \/ /\ api_token
          /\ instr_task' = "done"
          /\ UNCHANGED provider_failures
       \/ /\ instr_task' = "failed"
          /\ Failed("section", idx, "instrumental")
    /\ Pipeline_unchanged_inputs
    /\ Pipeline_unchanged_call
    /\ UNCHANGED << final_fx, tmp_files, printed >>
    /\ UNCHANGED submitted_for
    /\ UNCHANGED << sections, pc, idx, section_outputs, vocals_task, vocal_attempts,
                    render, error, final_ms, output_written >>

\* vocals_future.result(): blocks until the task is over; re-raises.
\* Faulty variant of AwaitVocals: the vocal task is not waited for.
AwaitVocalsNoWait ==
    /\ pc = "await_vocals"
    /\ pc' = "await_instr"
    /\ Pipeline_unchanged_inputs
    /\ Pipeline_unchanged_call
    /\ UNCHANGED << final_fx, tmp_files, printed >>
    /\ UNCHANGED submitted_for
    /\ UNCHANGED << sections, idx, section_outputs, vocals_task, instr_task, vocal_attempts,
                    render, provider_failures, error, final_ms, output_written >>

AwaitVocals ==
    /\ pc = "await_vocals"
    /\ Finished(vocals_task)
    /\ IF vocals_task = "done"
       THEN pc' = "await_instr" /\ UNCHANGED error
       ELSE pc' = "executor_exit" /\ error' = ProviderError("section", "vocal")
    /\ Pipeline_unchanged_inputs
    /\ Pipeline_unchanged_call
    /\ UNCHANGED << final_fx, tmp_files, printed >>
    /\ UNCHANGED submitted_for
    /\ UNCHANGED << sections, idx, section_outputs, vocals_task, instr_task, vocal_attempts,
                    render, provider_failures, final_ms, output_written >>

\* Faulty variant of AwaitInstrumental: the task's exception is swallowed.
AwaitInstrumentalSwallow ==
    /\ pc = "await_instr"
    /\ Finished(instr_task)
    /\ pc' = "executor_exit"
    /\ Pipeline_unchanged_inputs
    /\ Pipeline_unchanged_call
    /\ UNCHANGED << final_fx, tmp_files, printed >>
    /\ UNCHANGED submitted_for
    /\ UNCHANGED << sections, idx, section_outputs, vocals_task, instr_task, vocal_attempts,
                    render, provider_failures, error, final_ms, output_written >>

\* instrumental_url = instrumental_future.result()
AwaitInstrumental ==
    /\ pc = "await_instr"
    /\ Finished(instr_task)
    /\ pc' = "executor_exit"
    /\ IF instr_task = "done"
       THEN UNCHANGED error
       ELSE error' = ProviderError("section", "instrumental")
    /\ Pipeline_unchanged_inputs
    /\ Pipeline_unchanged_call
    /\ UNCHANGED << final_fx, tmp_files, printed >>
    /\ UNCHANGED submitted_for
    /\ UNCHANGED << sections, idx, section_outputs, vocals_task, instr_task, vocal_attempts,
                    render, provider_failures, final_ms, output_written >>

\* Leaving "with ThreadPoolExecutor(max_workers=2) as executor":
\* shutdown(wait=True) returns when both tasks are over; a pending exception
\* then leaves generate_and_download.
ExecutorExit ==
    /\ pc = "executor_exit"
    /\ Finished(vocals_task)
    /\ Finished(instr_task)
    /\ pc' = IF error = NoError THEN "process" ELSE "failed"
    /\ UNCHANGED << vocals_task, instr_task >>
    /\ Pipeline_unchanged_inputs
    /\ Pipeline_unchanged_call
    /\ tmp_files' = TmpAfter(pc', tmp_files)
    /\ UNCHANGED << final_fx, printed >>
    /\ UNCHANGED submitted_for
    /\ UNCHANGED << sections, idx, section_outputs, vocal_attempts, render,
                    provider_failures, error, final_ms, output_written >>

\* 2 ** (semitones / 12.0), in millionths
PitchRatio(semitones) ==
    CASE semitones = 3  -> 1189207
      [] semitones = 5  -> 1334840
      [] semitones = -3 -> 840896
      [] semitones = 7  -> 1498307

\* pitch_shift: the samples replayed at int(frame_rate * ratio)
pitch_shift(ms, semitones) == (ms * Micro) \div PitchRatio(semitones)

\* create_vocal_layers: result = vocals + 2, each harmony overlaid on it,
\* then apply_section_effects (which keeps the number of samples).
RECURSIVE OverlayHarmonies(_, _, _)
OverlayHarmonies(result_ms, vocals_ms, intervals) ==
    IF intervals = << >> THEN result_ms
    ELSE OverlayHarmonies(overlay(result_ms, pitch_shift(vocals_ms, Head(intervals))),
                          vocals_ms, Tail(intervals))

create_vocal_layers(vocals_ms, section_type, num_harmonies) ==
    IF lower(section_type) \in { lower(Chorus), lower(Bridge) }
    THEN OverlayHarmonies(vocals_ms, vocals_ms, SubSeq(<< 3, 5, -3, 7 >>, 1, num_harmonies))
    ELSE IF lower(section_type) = << "v", "e", "r", "s", "e" >> /\ num_harmonies >= 1
         THEN overlay(vocals_ms, pitch_shift(vocals_ms, 5))
         ELSE vocals_ms

\* Lines 527-543: harmonies or section effects, then apply_dynamic_volume
\* (a gain), then the export of the processed vocals.
ProcessedVocalsMs(vocals_ms, section_label, harmonies) ==
    IF harmonies /\ lower(section_label) \in { lower(Chorus), lower(Bridge) }
    THEN create_vocal_layers(vocals_ms, section_label, NumHarmonies(section_label))
    ELSE vocals_ms

ProcessVocals ==
    /\ pc = "process"
    /\ render' = [render EXCEPT
                     !.processed_ms =
                         ProcessedVocalsMs(render.vocal_ms, sections[idx].label, add_harmonies),
                     !.vocals_fx = ProcessedVocalsFx(sections[idx].label, add_harmonies)]
    /\ pc' = "fetch"
    /\ Pipeline_unchanged_inputs
    /\ Pipeline_unchanged_call
    /\ printed' = IF add_harmonies /\ lower(sections[idx].label) \in { lower(Chorus), lower(Bridge) }
                   THEN printed \cup { Line("harmonies", idx) }
                   ELSE printed
    /\ tmp_files' = tmp_files \cup { File("vocals_processed", idx) }
    /\ UNCHANGED final_fx
    /\ UNCHANGED submitted_for
    /\ UNCHANGED << sections, idx, section_outputs, vocals_task, instr_task, vocal_attempts,
                    provider_failures, error, final_ms, output_written >>

\* instrumental_path = _download_instrumental(instrumental_url, ...)
FetchInstrumental ==
    /\ pc = "fetch"
    /\ \/ /\ \E d \in InstrDurs : render' = [render EXCEPT !.instr_ms = d]
          /\ pc' = "align"
          /\ UNCHANGED << error, provider_failures >>
       \/ /\ Failed("section", idx, "fetch")
          /\ Raise(ProviderError("section", "fetch"))
          /\ UNCHANGED render
    /\ Pipeline_unchanged_inputs
    /\ Pipeline_unchanged_call
    /\ tmp_files' = TmpAfter(pc', tmp_files \cup { File("section", idx) })
    /\ UNCHANGED << final_fx, printed >>
    /\ UNCHANGED submitted_for
    /\ UNCHANGED << sections, idx, section_outputs, vocals_task, instr_task, vocal_attempts,
                    final_ms, output_written >>

\* fitted_path = _match_instrumental_to_vocals(instrumental_path, processed_vocals_path)
Align ==
    /\ pc = "align"
    /\ \E r \in _match_instrumental_to_vocals(render.instr_ms, render.processed_ms) :
          /\ render' = [render EXCEPT !.fitted_ms = r.ms, !.stretched = r.stretched]
          /\ tmp_files' = tmp_files \cup
                { IF r.stretched THEN File("section_stretch", idx) ELSE File("section_fit", idx) }
    /\ pc' = "mix"
    /\ Pipeline_unchanged_inputs
    /\ Pipeline_unchanged_call
    /\ UNCHANGED << final_fx, printed >>
    /\ UNCHANGED submitted_for
    /\ UNCHANGED << sections, idx, section_outputs, vocals_task, instr_task, vocal_attempts,
                    provider_failures, error, final_ms, output_written >>

\* Faulty variant of AppendSection: the mix is put in front of the list.
PrependSection(outputs, seg) == << seg >> \o outputs

\* section_outputs.append(section_audio)
AppendSection(outputs, seg) == Append(outputs, seg)

\* _mix_vocals_instrumental_paths(...); section_audio = from_mp3(mixed_path);
\* section_outputs.append(section_audio); next iteration
Mix ==
    /\ pc = "mix"
    /\ section_outputs' =
          AppendSection(section_outputs,
                        Segment("section", idx, render.vocal_ms,
                                _mix_vocals_instrumental_paths(render.processed_ms,
                                                               render.fitted_ms),
                                MixedVocalsFx(render.vocals_fx, sections[idx].label),
                                MixedInstrumentalFx(<< >>, sections[idx].label),
                                MixedFx))
    /\ render' = NoRender
    /\ idx' = idx + 1
    /\ pc' = "loop"
    /\ Pipeline_unchanged_inputs
    /\ Pipeline_unchanged_call
    /\ tmp_files' = tmp_files \cup { File("mixed", idx) }
    /\ UNCHANGED << final_fx, printed >>
    /\ UNCHANGED submitted_for
    /\ UNCHANGED << sections, vocals_task, instr_task, vocal_attempts,
                    provider_failures, error, final_ms, output_written >>

\* outro_url = generate_instrumental(..., section_label="Outro", ...)
OutroGenerate ==
    /\ pc = "outro_gen"
    /\ \/ /\ api_token
          /\ pc' = "outro_fetch"
          /\ UNCHANGED << error, provider_failures >>
       \/ /\ Failed("outro", 0, "instrumental")
          /\ Raise(ProviderError("outro", "instrumental"))
    /\ Pipeline_unchanged_inputs
    /\ Pipeline_unchanged_call
    /\ printed' = printed \cup { Line("outro", 0) }
    /\ tmp_files' = TmpAfter(pc', tmp_files)
    /\ UNCHANGED final_fx
    /\ UNCHANGED submitted_for
    /\ UNCHANGED << sections, idx, section_outputs, vocals_task, instr_task,
                    vocal_attempts, render, final_ms, output_written >>

\* outro_path = _download_instrumental(...); from_mp3; apply_section_effects;
\* fade_out(3000); section_outputs.append(outro_audio)
OutroFetch ==
    /\ pc = "outro_fetch"
    /\ \/ /\ \E d \in InstrDurs :
                section_outputs' = Append(section_outputs, Segment("outro", 0, 0, d, << >>, OutroFx, << >>))
          /\ pc' = "stitch"
          /\ UNCHANGED << error, provider_failures >>
       \/ /\ Failed("outro", 0, "fetch")
          /\ Raise(ProviderError("outro", "fetch"))
          /\ UNCHANGED section_outputs
    /\ Pipeline_unchanged_inputs
    /\ Pipeline_unchanged_call
    /\ tmp_files' = TmpAfter(pc', tmp_files \cup { File("outro", 0) })
    /\ UNCHANGED << final_fx, printed >>
    /\ UNCHANGED submitted_for
    /\ UNCHANGED << sections, idx, vocals_task, instr_task,
                    vocal_attempts, render, final_ms, output_written >>

\* if not section_outputs: raise ValueError(...); otherwise the crossfade fold
Stitch ==
    /\ pc = "stitch"
    /\ IF section_outputs = << >>
       THEN /\ Raise(NoSectionsError)
            /\ UNCHANGED << final_ms, final_fx, printed >>
       ELSE /\ printed' = printed \cup { Line("combining", 0) }
            /\ final_ms' = CrossfadeFold(Head(section_outputs).ms, Tail(section_outputs))
            /\ final_fx' = CrossfadeFoldFx(<< >>, Tail(section_outputs))
            /\ pc' = "master"
            /\ UNCHANGED error
    /\ Pipeline_unchanged_inputs
    /\ Pipeline_unchanged_call
    /\ UNCHANGED tmp_files
    /\ UNCHANGED submitted_for
    /\ UNCHANGED << sections, idx, section_outputs, vocals_task, instr_task, vocal_attempts,
                    render, provider_failures, output_written >>

\* final_mix = compress_audio(final_mix, threshold=-18.0, ratio=2.5)
Master ==
    /\ pc = "master"
    /\ pc' = "export"
    /\ Pipeline_unchanged_inputs
    /\ Pipeline_unchanged_call
    /\ final_fx' = MasterFx(final_fx)
    /\ UNCHANGED << tmp_files, printed >>
    /\ UNCHANGED submitted_for
    /\ UNCHANGED << sections, idx, section_outputs, vocals_task, instr_task, vocal_attempts,
                    render, provider_failures, error, final_ms, output_written >>

\* final_mix.export(output_path, format="mp3"); return output_path
Export ==
    /\ pc = "export"
    /\ output_written' = TRUE
    /\ pc' = "done"
    /\ Pipeline_unchanged_inputs
    /\ Pipeline_unchanged_call
    /\ printed' = printed \cup { Line("complete", 0) }
    /\ UNCHANGED << final_fx, tmp_files >>
    /\ UNCHANGED submitted_for
    /\ UNCHANGED << sections, idx, section_outputs, vocals_task, instr_task, vocal_attempts,
                    render, provider_failures, error, final_ms >>

Next ==
    \/ Split
    \/ IntroGenerate
    \/ IntroFetch
    \/ LoopSkip
    \/ LoopEnd
    \/ SubmitVocals
    \/ SubmitInstrumental
    \/ VocalsBark
    \/ VocalsEdge
    \/ InstrumentalRun
    \/ AwaitVocals
    \/ AwaitInstrumental
    \/ ExecutorExit
    \/ ProcessVocals
    \/ FetchInstrumental
    \/ Align
    \/ Mix
    \/ OutroGenerate
    \/ OutroFetch
    \/ Stitch
    \/ Master
    \/ Export

Spec == Init /\ [][Next]_vars

(***************************************************************************)
(* The splitter alone, over every text of up to MaxLines lines.            *)
(***************************************************************************)

\* Most lines of a text given to the splitter.
MaxLines == 4

\* Raw lines: empty, blank, two body lines (one with outer blanks), markers
\* (plain, with outer blanks, with a blank label), and bracketed lines that
\* are no markers ("[]", "[a").
LineSet ==
    { << >>,
      << " " >>,
      << "a" >>,
      << " ", "b", " ", "c", " " >>,
      << "[", "v", "]" >>,
      << " ", "[", " ", "c", " ", "]", " " >>,
      << "[", " ", "]" >>,
      << "[", "]" >>,
      << "[", "a" >> }

Texts == { JoinLines(ls) : ls \in UNION { [1..n -> LineSet] : n \in 0..MaxLines } }

InitSplit ==
    /\ lyrics \in Texts
    /\ add_intro_outro = FALSE
    /\ add_harmonies = TRUE
    /\ api_token = TRUE
    /\ sections = << >>
    /\ pc = "start"
    /\ idx = 0
    /\ section_outputs = << >>
    /\ vocals_task = "idle"
    /\ instr_task = "idle"
    /\ vocal_attempts = << >>
    /\ render = NoRender
    /\ provider_failures = {}
    /\ error = NoError
    /\ final_ms = 0
    /\ output_written = FALSE
    /\ submitted_for = NotSubmitted
    /\ final_fx = << >>
    /\ tmp_files = {}
    /\ printed = {}
    /\ call = NoCall
    /\ ret = NoReturn

NextSplit == Split

SpecSplit == InitSplit /\ [][NextSplit]_vars

(***************************************************************************)
(* Properties of the pipeline (specification Spec).                        *)
(***************************************************************************)

Stitching == pc \in { "stitch", "master", "export", "done" }

\* Positions of the main thread between a task's failure and the moment the
\* exception leaves generate_and_download.
FailurePath == pc \in { "submit_instr", "await_vocals", "await_instr", "executor_exit", "failed" }

\* The lyric sections that are rendered: those with a non-empty text.
RenderedIdx == SelectSeq([i \in 1..Len(sections) |-> i], LAMBDA i : sections[i].text # << >>)

\* C1: once a provider step has raised (a vocal synthesis after its fallback,
\* an instrumental synthesis or an instrumental fetch, for a lyric section,
\* the intro or the outro), the run executes no later pipeline step, never
\* writes the output file and can only end in an error carrying the
\* provider's failure; a run that returns the path has written the file,
\* had no such failure and holds a segment for every rendered section.
C1_ProviderFailureIsFatal ==
    /\ provider_failures # {} =>
          /\ FailurePath
          /\ ~output_written
          /\ pc = "failed" => error.kind = "ProviderFailure"
    /\ pc = "failed" => ~output_written
    /\ pc = "done" =>
          /\ output_written
          /\ provider_failures = {}
          /\ error = NoError
          /\ \A k \in 1..Len(sections) :
                sections[k].text # << >> =>
                   \E i \in 1..Len(section_outputs) :
                      section_outputs[i].kind = "section" /\ section_outputs[i].idx = k

\* A run that rendered section 1 and then failed in section 2.
C1_Witness ==
    /\ pc = "failed"
    /\ section_outputs # << >>
    /\ ~output_written
    /\ \E f \in provider_failures : f.where = "section" /\ f.idx = 2

SegmentKeys(outputs) == [i \in 1..Len(outputs) |-> << outputs[i].kind, outputs[i].idx >>]

ExpectedKeys ==
    (IF add_intro_outro THEN << << "intro", 0 >> >> ELSE << >>)
    \o [i \in 1..Len(RenderedIdx) |-> << "section", RenderedIdx[i] >>]
    \o (IF add_intro_outro THEN << << "outro", 0 >> >> ELSE << >>)

\* C2: the segments handed to stitching are the intro (iff add_intro_outro),
\* one mix per lyric section with a non-empty text in the splitter's order,
\* and the outro (iff add_intro_outro); with 2 lyric sections and
\* add_intro_outro that is 4 segments.
C2_SegmentOrder ==
    Stitching =>
       /\ SegmentKeys(section_outputs) = ExpectedKeys
       /\ (add_intro_outro /\ Len(RenderedIdx) = 2) =>
             SegmentKeys(section_outputs) =
                << << "intro", 0 >>, << "section", 1 >>, << "section", 2 >>, << "outro", 0 >> >>

C2_Witness ==
    /\ pc = "stitch"
    /\ add_intro_outro
    /\ Len(sections) = 2
    /\ Len(section_outputs) = 4

\* C3: every lyric section's mix is as long as the vocal the provider
\* returned for it, whatever the length of the instrumental.
C3_MixedEqualsVocal ==
    \A i \in 1..Len(section_outputs) :
       section_outputs[i].kind = "section" =>
          section_outputs[i].ms = section_outputs[i].vocal_ms

\* A mix of a 1300 ms vocal, a length no instrumental of InstrDurs has, and
\* one of a 300 ms vocal.
C3_Witness ==
    /\ 1300 \notin InstrDurs
    /\ \E i, j \in 1..Len(section_outputs) :
          /\ section_outputs[i].kind = "section"
          /\ section_outputs[i].vocal_ms = 1300
          /\ section_outputs[j].kind = "section"
          /\ section_outputs[j].vocal_ms = 300

\* C4: when a provider call of section k fails, the error that leaves
\* generate_and_download identifies section k and the capability.
C4_ErrorIdentifiesSection ==
    (pc = "failed" /\ error.kind = "ProviderFailure" /\ error.where = "section") =>
       /\ "section" \in DOMAIN error
       /\ error.section = idx
       /\ \E f \in provider_failures : f.idx = idx /\ f.capability = error.capability

BarkOk   == Attempt("bark", TRUE)
BarkFail == Attempt("bark", FALSE)
EdgeOk   == Attempt("edge", TRUE)
EdgeFail == Attempt("edge", FALSE)

\* C5: per section Bark is called at most once (and only with a token), Edge
\* TTS exactly once after a failed Bark call (or without a token) and never
\* otherwise, nothing is called a third time; a failed Edge call is fatal;
\* and only the section in progress is ever being synthesized.
C5_SingleFallback ==
    \A k \in DOMAIN vocal_attempts :
       LET a == vocal_attempts[k] IN
       /\ \/ a \in { << >>, << BarkOk >>, << BarkFail, EdgeOk >>, << BarkFail, EdgeFail >>,
                     << EdgeOk >>, << EdgeFail >> }
          \/ a = << BarkFail >> /\ k = idx /\ vocals_task = "fallback"
       /\ (a # << >> /\ a[1].method = "bark") => api_token
       /\ (a # << >> /\ a[1].method = "edge") => ~api_token
       /\ (a # << >> /\ a[Len(a)] = EdgeFail) =>
             /\ k = idx
             /\ [where |-> "section", idx |-> k, capability |-> "vocal"] \in provider_failures
             /\ pc \in { "submit_instr", "await_vocals", "executor_exit", "failed" }
             /\ ~output_written
       /\ k > idx => a = << >>
       /\ (k < idx /\ sections[k].text # << >>) =>
             a \in { << BarkOk >>, << BarkFail, EdgeOk >>, << EdgeOk >> }

\* Section 1 was sung by the fallback, section 2's fallback failed too.
C5_Witness ==
    /\ pc = "failed"
    /\ Len(sections) >= 2
    /\ vocal_attempts[1] = << BarkFail, EdgeOk >>
    /\ vocal_attempts[2] = << BarkFail, EdgeFail >>

\* C6: if every lyric section is dropped, the run fails with the no-sections
\* error and writes no file, for both values of add_intro_outro (provider
\* failures, which end the run with their own error, set aside).
C6_NoSectionsIsFatal ==
    (/\ pc \in { "done", "failed" }
     /\ RenderedIdx = << >>
     /\ provider_failures = {}) =>
       /\ pc = "failed"
       /\ error = NoSectionsError
       /\ ~output_written

(***************************************************************************)
(* Properties of the splitter (specification SpecSplit): sections is       *)
(* _split_lyrics_sections(lyrics) in every state past "start".  The        *)
(* expected result is stated from the positions of the marker lines, not   *)
(* by the loop.                                                            *)
(***************************************************************************)

\* The lines of a text, each trimmed.
TrimmedLines(text) == LET ls == splitlines(text) IN [i \in 1..Len(ls) |-> Strip(ls[i])]

IsBodyLine(line) == line # << >> /\ ~IsMarkerLine(line)

HasMarker(text) == \E i \in 1..Len(TrimmedLines(text)) : IsMarkerLine(TrimmedLines(text)[i])

BodyLines(text) == SelectSeq(TrimmedLines(text), IsBodyLine)

\* Where a group starts: before the first line (0) or at a marker line.
GroupStarts(text) ==
    {0} \cup { i \in 1..Len(TrimmedLines(text)) : IsMarkerLine(TrimmedLines(text)[i]) }

\* The last line before the next marker.
GroupEnd(text, p) ==
    LET later == { q \in GroupStarts(text) : q > p } IN
    IF later = {} THEN Len(TrimmedLines(text))
    ELSE (CHOOSE q \in later : \A r \in later : q <= r) - 1

GroupBody(text, p) == SelectSeq(SubSeq(TrimmedLines(text), p + 1, GroupEnd(text, p)), IsBodyLine)

GroupLabel(text, p) == IF p = 0 THEN DefaultLabel ELSE MarkerLabel(TrimmedLines(text)[p])

\* The groups with a body, in the order of the text.
ExpectedSections(text) ==
    LET starts == SelectSeq([i \in 1..(Len(TrimmedLines(text)) + 1) |-> i - 1],
                            LAMBDA p : p \in GroupStarts(text) /\ GroupBody(text, p) # << >>)
    IN  [j \in 1..Len(starts) |->
            [label |-> GroupLabel(text, starts[j]),
             text  |-> JoinLines(GroupBody(text, starts[j]))]]

NoMarkerLineIn(body) == ~HasMarker(body)

\* C7: the sections are returned in input order, each marker line starting
\* the section of its label, each body being the non-empty non-marker lines
\* up to the next marker joined by line breaks; no marker line is ever
\* inside a returned body.  (A text without any body line is left to yield
\* a single section.)
C7_SplitByMarkers ==
    pc # "start" =>
       /\ \/ sections = ExpectedSections(lyrics)
          \/ ExpectedSections(lyrics) = << >> /\ Len(sections) = 1
       /\ \A i \in 1..Len(sections) : NoMarkerLineIn(sections[i].text)

\* C8 as stated: without a marker line the result is one section labelled
\* "Section" whose body is the entire text.
C8_BodyIsEntireText ==
    (pc # "start" /\ ~HasMarker(lyrics)) =>
       sections = << [label |-> DefaultLabel, text |-> lyrics] >>

\* C8, amended: without a marker line the result is one section labelled
\* "Section" whose body is the text's non-empty lines, each trimmed, joined
\* by line breaks.
C8_BodyIsTrimmedLines ==
    (pc # "start" /\ ~HasMarker(lyrics)) =>
       sections = << [label |-> DefaultLabel, text |-> JoinLines(BodyLines(lyrics))] >>

\* A text without marker whose body differs from it.
C8_Witness ==
    /\ pc # "start"
    /\ ~HasMarker(lyrics)
    /\ Len(BodyLines(lyrics)) >= 2
    /\ Len(sections) = 1
    /\ sections[1].text # lyrics

\* The marker lines followed by no body line before the next marker or the end.
EmptyMarkers(text) == { p \in GroupStarts(text) \ {0} : GroupBody(text, p) = << >> }

\* The text with line p taken out.
WithoutLine(text, p) ==
    LET ls == splitlines(text) IN
    JoinLines(SubSeq(ls, 1, p - 1) \o SubSeq(ls, p + 1, Len(ls)))

\* C9: a marker followed by no body line contributes no section: the result
\* has as many sections as that of the text without the marker line, and is
\* the same result when the text has a body line at all; a section with an
\* empty body is returned only for a text that is empty after trimming, and
\* then it is the only section.
C9_EmptyMarkersDropped ==
    pc # "start" =>
       /\ \A p \in EmptyMarkers(lyrics) :
             LET other == _split_lyrics_sections(WithoutLine(lyrics, p)) IN
             /\ Len(other) = Len(sections)
             /\ BodyLines(lyrics) # << >> => other = sections
       /\ (\E i \in 1..Len(sections) : sections[i].text = << >>) <=> Strip(lyrics) = << >>
       /\ Strip(lyrics) = << >> => sections = << [label |-> DefaultLabel, text |-> << >>] >>

\* A marker without a body between two sections that have one.
C9_Witness ==
    /\ pc # "start"
    /\ Cardinality(EmptyMarkers(lyrics)) = 1
    /\ Len(sections) = 2
    /\ sections[1].label = DefaultLabel

\* "[label]" + line break + text
Relabelled(section) == << "[" >> \o section.label \o << "]", "\n" >> \o section.text

\* C10: splitting "[label]\ntext" of a returned section returns exactly
\* that section.
C10_SplitIdempotent ==
    pc # "start" =>
       \A i \in 1..Len(sections) :
          _split_lyrics_sections(Relabelled(sections[i])) = << sections[i] >>


(***************************************************************************)
(* Functions called on their own.  Init draws the arguments from bounded    *)
(* sets; each action applies one function to them and records what it       *)
(* returned.  The pipeline's variables stay as they are before a run.       *)
(***************************************************************************)
MaxAlignMs == 120
MaxFadeMs == 5
MaxRatioMs == 24
MaxStretchMs == 100

MatchCalls ==
    { [fn |-> "_match_instrumental_to_vocals", instrumental_ms |-> d, target_ms |-> t] :
        d \in 1..MaxAlignMs, t \in 0..MaxAlignMs }

CrossfadeCalls ==
    { [fn |-> "crossfade_segments", seg1_ms |-> a, seg2_ms |-> b, duration_ms |-> w] :
        a \in 0..MaxFadeMs, b \in 0..MaxFadeMs, w \in 0..MaxFadeMs }

\* Ratios original_ms / target_ms, in millionths.
AtempoCalls ==
    { [fn |-> "_atempo_filters", ratio |-> (o * Micro) \div t] :
        o \in 1..MaxRatioMs, t \in 1..MaxRatioMs }

StretchCalls ==
    { [fn |-> "_time_stretch_to_duration", input_ms |-> d, target_ms |-> t] :
        d \in 0..MaxStretchMs, t \in 0..MaxStretchMs }

Calls == MatchCalls \cup CrossfadeCalls \cup AtempoCalls \cup StretchCalls

InitCalls ==
    /\ call \in Calls
    /\ ret = NoReturn
    /\ lyrics = << >>
    /\ add_intro_outro = FALSE
    /\ add_harmonies = FALSE
    /\ api_token = FALSE
    /\ sections = << >>
    /\ pc = "start"
    /\ idx = 0
    /\ section_outputs = << >>
    /\ vocals_task = "idle"
    /\ instr_task = "idle"
    /\ vocal_attempts = << >>
    /\ render = NoRender
    /\ provider_failures = {}
    /\ error = NoError
    /\ final_ms = 0
    /\ output_written = FALSE
    /\ submitted_for = NotSubmitted
    /\ final_fx = << >>
    /\ tmp_files = {}
    /\ printed = {}

Calls_unchanged_pipeline ==
    UNCHANGED << lyrics, add_intro_outro, add_harmonies, api_token, sections, pc, idx,
                 section_outputs, vocals_task, instr_task, vocal_attempts, render,
                 provider_failures, error, final_ms, output_written, submitted_for,
                 final_fx, tmp_files, printed >>

Returned(fn) == ret # NoReturn /\ ret.fn = fn

\* _match_instrumental_to_vocals(instrumental_path, vocals_path)
CallMatch ==
    /\ call.fn = "_match_instrumental_to_vocals"
    /\ ret = NoReturn
    /\ \E r \in _match_instrumental_to_vocals(call.instrumental_ms, call.target_ms) :
          ret' = [fn |-> call.fn, value |-> r]
    /\ UNCHANGED call
    /\ Calls_unchanged_pipeline

\* crossfade_segments(seg1, seg2, duration_ms)
CallCrossfade ==
    /\ call.fn = "crossfade_segments"
    /\ ret = NoReturn
    /\ ret' = [fn |-> call.fn,
               value |-> crossfade_segments(call.seg1_ms, call.seg2_ms, call.duration_ms)]
    /\ UNCHANGED call
    /\ Calls_unchanged_pipeline

\* _atempo_filters(ratio)
CallAtempo ==
    /\ call.fn = "_atempo_filters"
    /\ ret = NoReturn
    /\ ret' = [fn |-> call.fn, value |-> _atempo_filters(call.ratio)]
    /\ UNCHANGED call
    /\ Calls_unchanged_pipeline

\* _time_stretch_to_duration(input_path, output_path, target_ms)
CallStretch ==
    /\ call.fn = "_time_stretch_to_duration"
    /\ ret = NoReturn
    /\ \E r \in _time_stretch_to_duration(call.input_ms, call.target_ms) :
          ret' = [fn |-> call.fn, value |-> r]
    /\ UNCHANGED call
    /\ Calls_unchanged_pipeline

NextCalls ==
    \/ CallMatch
    \/ CallCrossfade
    \/ CallAtempo
    \/ CallStretch

SpecCalls == InitCalls /\ [][NextCalls]_vars

\* C11: whatever the instrumental's duration D > 0 and the vocal's duration
\* T > 0, the file _match_instrumental_to_vocals returns is never of negative
\* length, and when the stretch step reported success it is within 50 ms of T.
C11_AlignedWithinTolerance ==
    Returned("_match_instrumental_to_vocals") =>
        /\ ret.value.ms >= 0
        /\ ret.value.stretched => Abs(ret.value.ms - call.target_ms) <= StretchToleranceMs

\* A looped instrumental (D more than 50 ms shorter than T) whose stretch
\* reported success.
C11_Witness ==
    /\ Returned("_match_instrumental_to_vocals")
    /\ ret.value.stretched
    /\ call.instrumental_ms + StretchToleranceMs < call.target_ms

\* C12: crossfade_segments(A, B, w) is La + Lb - w long when La >= w and
\* Lb >= w (La = w and Lb = w included), and La + Lb long when La < w or Lb < w.
C12_CrossfadeLength ==
    Returned("crossfade_segments") =>
        IF call.seg1_ms >= call.duration_ms /\ call.seg2_ms >= call.duration_ms
        THEN ret.value = call.seg1_ms + call.seg2_ms - call.duration_ms
        ELSE ret.value = call.seg1_ms + call.seg2_ms

\* A crossfade of a segment exactly as long as the overlap.
C12_Witness ==
    /\ Returned("crossfade_segments")
    /\ call.duration_ms > 0
    /\ call.seg1_ms = call.duration_ms
    /\ call.seg2_ms > call.duration_ms
    /\ ret.value = call.seg2_ms

RECURSIVE SumMs(_)
SumMs(outputs) == IF outputs = << >> THEN 0 ELSE Head(outputs).ms + SumMs(Tail(outputs))

Stitched == pc \in { "master", "export", "done" }

AllAtLeastCrossfade ==
    \A i \in 1..Len(section_outputs) : section_outputs[i].ms >= 500

\* C13: once the n >= 1 segments, each at least 500 ms long, are stitched, the
\* master is as long as their sum less 500 ms for each of the n - 1 joins, and
\* stays so through compression and export; for the lyric [Verse 1], [Chorus],
\* [Verse 2], [Chorus] without intro and outro there are exactly 4 segments
\* and 3 joins.
C13_MasterDuration ==
    (Stitched /\ AllAtLeastCrossfade) =>
        /\ Len(section_outputs) >= 1
        /\ final_ms = SumMs(section_outputs) - 500 * (Len(section_outputs) - 1)
        /\ (lyrics = quick_test_lyrics /\ ~add_intro_outro) =>
              /\ Len(section_outputs) = 4
              /\ \A i \in 1..4 : section_outputs[i].kind = "section"
              /\ final_ms = SumMs(section_outputs) - 3 * 500

\* The four-stanza song, written out, every section at least 500 ms long.
C13_Witness ==
    /\ pc = "done"
    /\ lyrics = quick_test_lyrics
    /\ ~add_intro_outro
    /\ AllAtLeastCrossfade
    /\ final_ms = SumMs(section_outputs) - 1500

(***************************************************************************)
(* Reading a segment's processing back.                                     *)
(***************************************************************************)
SectionSegments == { i \in 1..Len(section_outputs) : section_outputs[i].kind = "section" }

LabelKey(i) == lower(sections[section_outputs[i].idx].label)

IsEffectsStep(o) == o.op = "section_effects"
IsHarmony(o) == o.op = "harmony"

\* The apply_section_effects steps a piece of audio went through.
EffectsSteps(fx) == SelectSeq(fx, IsEffectsStep)

\* The mixer's gain is the last operation on each of its inputs, and
\* apply_dynamic_volume's the one before it on the vocal.
MixerGain(fx) == fx[Len(fx)].db
VolumeCurveGain(fx) == fx[Len(fx) - 1].db

HasGain(fx, db) == \E j \in 1..Len(fx) : fx[j].op = "gain" /\ fx[j].db = db

\* C14: a lyric section whose label, lower-cased, is none of intro, verse,
\* pre-chorus, chorus, bridge, outro gets the verse's treatment at every
\* per-label stage: the verse's section effects, the verse's volume
\* adjustment, and the verse's two mixer gains.
C14_UnknownLabelIsVerse ==
    \A i \in SectionSegments :
        LabelKey(i) \notin DOMAIN SECTION_CONFIGS =>
            LET seg == section_outputs[i]
            IN  /\ EffectsSteps(seg.vocals_fx) = apply_section_effects(<< >>, Verse)
                /\ VolumeCurveGain(seg.vocals_fx) = volume_map[lower(Verse)]
                /\ MixerGain(seg.vocals_fx) = SECTION_CONFIGS[lower(Verse)].vocal_volume
                /\ MixerGain(seg.instr_fx) = SECTION_CONFIGS[lower(Verse)].instrumental_volume

\* C15: in the mix of a lyric section labelled intro or outro the mixer turns
\* the vocal down; a gain below 0 dB is the least that suppressing it to a
\* near-zero level takes.
C15_IntroOutroVocalSuppressed ==
    \A i \in SectionSegments :
        LabelKey(i) \in { lower(Intro), lower(Outro) } =>
            MixerGain(section_outputs[i].vocals_fx) < 0

\* What the fixed table gives a label: mixer gains, reverb room/wet, and
\* whether the chorus effect and the delay are applied.
TableRow(vocal, instrumental, reverb, chorus, delay) ==
    [vocal |-> vocal, instrumental |-> instrumental, reverb |-> reverb,
     chorus |-> chorus, delay |-> delay]

ReverbOf(effects) ==
    LET r == SelectSeq(effects, LAMBDA o : o.op = "reverb")
    IN  [j \in 1..Len(r) |-> << r[j].room_size, r[j].wet_mix >>]

HasEffect(effects, name) == \E j \in 1..Len(effects) : effects[j].op = name

\* How a rendered lyric section was in fact treated, in the table's terms.
AppliedRow(seg) ==
    LET effects == EffectsSteps(seg.vocals_fx)[1].effects
    IN  TableRow(MixerGain(seg.vocals_fx), MixerGain(seg.instr_fx), ReverbOf(effects),
                 HasEffect(effects, "chorus"), HasEffect(effects, "delay"))

\* C16: a lyric section labelled (in any case) verse, pre-chorus, chorus or
\* bridge is mixed with vocal gain +5, +3, +3, +2 dB; one labelled intro,
\* verse, pre-chorus, chorus, bridge or outro with instrumental gain -5, -18,
\* -15, -12, -14, -8 dB; its reverb room/wet is 0.3/0.2, 0.4/0.25, 0.6/0.35,
\* 0.5/0.3, 0.7/0.4 for intro, verse, chorus, bridge, outro and there is none
\* for pre-chorus; the chorus effect is applied to chorus only and the delay
\* to bridge only.
C16_ConfigurationTable ==
    \A i \in SectionSegments :
        LET k == LabelKey(i)
            row == AppliedRow(section_outputs[i])
        IN  /\ k = << "i", "n", "t", "r", "o" >> =>
                  row = TableRow(row.vocal, -5, << << 30, 20 >> >>, FALSE, FALSE)
            /\ k = << "v", "e", "r", "s", "e" >> =>
                  row = TableRow(5, -18, << << 40, 25 >> >>, FALSE, FALSE)
            /\ k = << "p", "r", "e", "-", "c", "h", "o", "r", "u", "s" >> =>
                  row = TableRow(3, -15, << >>, FALSE, FALSE)
            /\ k = << "c", "h", "o", "r", "u", "s" >> =>
                  row = TableRow(3, -12, << << 60, 35 >> >>, TRUE, FALSE)
            /\ k = << "b", "r", "i", "d", "g", "e" >> =>
                  row = TableRow(2, -14, << << 50, 30 >> >>, FALSE, TRUE)
            /\ k = << "o", "u", "t", "r", "o" >> =>
                  row = TableRow(row.vocal, -8, << << 70, 40 >> >>, FALSE, FALSE)

\* A rendered section whose label is written in upper case, treated as a
\* chorus.
C16_Witness ==
    /\ pc = "done"
    /\ lyrics = Stanza(ChorusUpper)
    /\ \E i \in SectionSegments :
          AppliedRow(section_outputs[i]) = TableRow(3, -12, << << 60, 35 >> >>, TRUE, FALSE)

\* C17: with add_intro_outro the generated intro has the intro row's
\* instrumental gain applied to it, and the generated outro the outro row's,
\* each besides one section-effects step, and the outro ends in a fade-out.
C17_IntroOutroGain ==
    \A i \in 1..Len(section_outputs) :
        LET seg == section_outputs[i]
        IN  /\ seg.kind = "intro" =>
                  /\ HasGain(seg.instr_fx, -5)
                  /\ EffectsSteps(seg.instr_fx) = apply_section_effects(<< >>, Intro)
            /\ seg.kind = "outro" =>
                  /\ HasGain(seg.instr_fx, -8)
                  /\ EffectsSteps(seg.instr_fx) = apply_section_effects(<< >>, Outro)
                  /\ seg.instr_fx[Len(seg.instr_fx)].op = "fade"
                  /\ seg.instr_fx[Len(seg.instr_fx)].direction = "out"

HarmonyLayers(fx) == Len(SelectSeq(fx, IsHarmony))

\* The gains applied before the section-effects step: the boost of the lead.
RECURSIVE LeadBoosts(_)
LeadBoosts(fx) ==
    IF fx = << >> \/ IsEffectsStep(Head(fx)) THEN 0
    ELSE (IF Head(fx).op = "gain" THEN 1 ELSE 0) + LeadBoosts(Tail(fx))

\* C18: a section's vocal has 2 harmony layers when add_harmonies is set and
\* its label is chorus, 1 when it is bridge (in any case), and otherwise, and
\* always when add_harmonies is not set, no layer and no boost of the lead;
\* either way it goes through the section-effects step exactly once.
C18_HarmoniesOnlyChorusBridge ==
    \A i \in SectionSegments :
        LET fx == section_outputs[i].vocals_fx
            expected == IF add_harmonies /\ LabelKey(i) = << "c", "h", "o", "r", "u", "s" >> THEN 2
                        ELSE IF add_harmonies /\ LabelKey(i) = << "b", "r", "i", "d", "g", "e" >> THEN 1
                        ELSE 0
        IN  /\ HarmonyLayers(fx) = expected
            /\ expected = 0 => LeadBoosts(fx) = 0
            /\ Len(EffectsSteps(fx)) = 1

\* A bridge rendered with harmonies: one layer, effects once.
C18_Witness ==
    /\ pc = "done"
    /\ add_harmonies
    /\ lyrics = Stanza(Bridge)
    /\ \E i \in SectionSegments :
          /\ HarmonyLayers(section_outputs[i].vocals_fx) = 1
          /\ Len(EffectsSteps(section_outputs[i].vocals_fx)) = 1

InFlight(task) == task \in { "queued", "fallback" }

\* C19: while generate_and_download awaits either future of a section, both
\* tasks of that section have been submitted; and while it enhances the
\* vocal, fetches and aligns the instrumental, or mixes, both tasks of that
\* section have completed successfully.
C19_SubmitBothThenJoin ==
    /\ pc \in { "await_vocals", "await_instr" } =>
          /\ vocals_task # "idle" /\ submitted_for.vocals = idx
          /\ instr_task # "idle" /\ submitted_for.instrumental = idx
    /\ pc \in { "process", "fetch", "align", "mix" } =>
          /\ vocals_task = "done" /\ submitted_for.vocals = idx
          /\ instr_task = "done" /\ submitted_for.instrumental = idx

\* The second section's vocal is being awaited while its instrumental,
\* submitted with it, has already completed.
C19_Witness ==
    /\ pc = "await_vocals"
    /\ idx = 2
    /\ InFlight(vocals_task)
    /\ instr_task = "done"
    /\ submitted_for = [vocals |-> 2, instrumental |-> 2]

\* The lyric sections before k that have text.
RenderedBefore(k) == { j \in 1..(k - 1) : j <= Len(sections) /\ sections[j].text # << >> }

MixedSections == { section_outputs[i].idx : i \in SectionSegments }

\* C20: at every moment the provider tasks in flight (at most the two
\* futures) were submitted for the section being rendered, the thread of
\* generate_and_download is inside that section's executor block, and every
\* earlier section with text has its mix in section_outputs.
C20_OneSectionInFlight ==
    /\ Cardinality({ t \in { "vocals", "instrumental" } :
                       InFlight(IF t = "vocals" THEN vocals_task ELSE instr_task) }) <= 2
    /\ InFlight(vocals_task) => submitted_for.vocals = idx
    /\ InFlight(instr_task) => submitted_for.instrumental = idx
    /\ (InFlight(vocals_task) \/ InFlight(instr_task)) =>
          /\ pc \in { "submit_instr", "await_vocals", "await_instr", "executor_exit" }
          /\ RenderedBefore(idx) \subseteq MixedSections

\* Both tasks of the second section in flight, the first section mixed.
C20_Witness ==
    /\ idx = 2
    /\ InFlight(vocals_task)
    /\ InFlight(instr_task)
    /\ MixedSections = { 1 }

IsCompress(o) == o.op = "compress"
IsCrossfade(o) == o.op = "crossfade"

\* The compression passes a piece of audio went through.
Compressions(fx) == SelectSeq(fx, IsCompress)

\* Every lyric section with text has its mix in section_outputs, between the
\* intro and the outro when they were asked for.
AllSegmentsProduced ==
    /\ MixedSections = RenderedBefore(Len(sections) + 1)
    /\ add_intro_outro =>
          /\ Len(section_outputs) >= 2
          /\ section_outputs[1].kind = "intro"
          /\ section_outputs[Len(section_outputs)].kind = "outro"

Mastered ==
    /\ Len(final_fx) = Len(section_outputs)
    /\ \A j \in 1..(Len(final_fx) - 1) : IsCrossfade(final_fx[j])
    /\ IsCompress(final_fx[Len(final_fx)])

StagesOrdered ==
    /\ Stitching => AllSegmentsProduced
    /\ pc \in { "stitch", "master" } => Compressions(final_fx) = << >>
    /\ pc \in { "export", "done" } =>
          /\ Mastered
          /\ \A i \in SectionSegments :
                \A j \in 1..Len(section_outputs[i].mix_fx) :
                    LET m == section_outputs[i].mix_fx[j]
                        master == final_fx[Len(final_fx)]
                    IN  IsCompress(m) => (master.threshold > m.threshold /\ master.ratio < m.ratio)
    /\ output_written => (pc = "done" /\ Mastered)
    /\ error # NoError =>
          /\ pc \in { "executor_exit", "failed" }
          /\ ~output_written
          /\ final_fx = << >>

NothingAfterFailure ==
    error # NoError =>
        /\ UNCHANGED << section_outputs, render, final_ms, final_fx, output_written, error >>
        /\ pc' \in { pc, "failed" }
        /\ pc = "failed" => UNCHANGED vars

\* C21: stitching begins only once the mix of every lyric section with text
\* (and the intro and outro, when asked for) is in section_outputs; the master
\* compression is applied exactly once, after the last join, with a higher
\* threshold and a lower ratio than the per-section compression; the output is
\* written only after mastering; and once a step has failed the run goes
\* straight to its failed end, no later step of the pipeline being executed.
C21_StagesInOrder == [](StagesOrdered) /\ [][NothingAfterFailure]_vars

\* A finished run with intro, sections and outro: joined, compressed once,
\* written.
C21_Witness ==
    /\ pc = "done"
    /\ output_written
    /\ add_intro_outro
    /\ Len(section_outputs) >= 3
    /\ Len(Compressions(final_fx)) = 1
    /\ Mastered

InExecutorBlock == pc \in { "await_vocals", "await_instr", "executor_exit" }

\* C22: when one of the two tasks of a section has failed, the sibling is
\* cancelled: the thread of generate_and_download goes on to raise the error
\* without waiting for the sibling to complete.
C22_SiblingNotAwaited ==
    (InExecutorBlock /\ (vocals_task = "failed" \/ instr_task = "failed")) =>
        ENABLED (AwaitVocals \/ AwaitInstrumental \/ ExecutorExit)

\* The files of tmpdir that belong to lyric sections other than k.
FilesOfOtherSections(k) ==
    { f \in tmp_files : f.name \notin { "intro", "outro" } /\ f.idx # k }

\* C23: when the synthesis of a section starts (and from then on, while that
\* section is rendered), tmpdir holds no intermediate file of any other
\* section: the files of section k were released once its mix was produced.
C23_OneSectionOfFiles ==
    pc \in { "submit_instr", "await_vocals", "await_instr", "executor_exit",
             "process", "fetch", "align", "mix" } =>
        FilesOfOtherSections(idx) = {}

\* ceil(a / b) for b > 0
CeilDiv(a, b) == (a + b - 1) \div b

\* C24 as stated: an instrumental of D > 0 ms shorter than the target T is
\* repeated ceil(T / D) times before the trim, also when D divides T.
C24_LoopsAreCeil ==
    (Returned("_match_instrumental_to_vocals") /\ call.instrumental_ms < call.target_ms) =>
        ret.value.loops = CeilDiv(call.target_ms, call.instrumental_ms)

\* C24, amended: an instrumental of D > 0 ms shorter than the target T is
\* repeated floor(T / D) + 1 times before the trim, which is ceil(T / D) when
\* D does not divide T and one more than that when it does; the looped clip
\* is then longer than T.
C24_LoopsAreFloorPlusOne ==
    (Returned("_match_instrumental_to_vocals") /\ call.instrumental_ms < call.target_ms) =>
        LET D == call.instrumental_ms
            T == call.target_ms
        IN  /\ ret.value.loops = (T \div D) + 1
            /\ ret.value.looped_ms = ret.value.loops * D
            /\ ret.value.looped_ms > T
            /\ T % D # 0 => ret.value.loops = CeilDiv(T, D)
            /\ T % D = 0 => ret.value.loops = CeilDiv(T, D) + 1

\* An instrumental that divides the target more than once.
C24_Witness ==
    /\ Returned("_match_instrumental_to_vocals")
    /\ call.instrumental_ms < call.target_ms
    /\ call.target_ms % call.instrumental_ms = 0
    /\ call.target_ms \div call.instrumental_ms >= 2
    /\ ret.value.loops = (call.target_ms \div call.instrumental_ms) + 1

\* C28: for an instrumental of D > 0 ms and a vocal of T >= 0 ms, the clip
\* before the trim is at least T long, the clip handed to
\* _time_stretch_to_duration is exactly T long, and so, once decoded, it takes
\* the branch for durations less than 50 ms apart: the atempo transform is
\* never run.
C28_StretchIsNeverRun ==
    Returned("_match_instrumental_to_vocals") =>
        /\ ret.value.looped_ms >= call.target_ms
        /\ ret.value.fit_ms = call.target_ms
        /\ ret.value.branch \in { "equal", "decode_error" }
        /\ ret.value.stretched <=> ret.value.branch = "equal"

\* A looped instrumental far shorter than the vocal, and still no stretch.
C28_Witness ==
    /\ Returned("_match_instrumental_to_vocals")
    /\ call.instrumental_ms + StretchToleranceMs < call.target_ms
    /\ call.target_ms % call.instrumental_ms # 0
    /\ ret.value.branch = "equal"
    /\ ret.value.fit_ms = call.target_ms

RECURSIVE Pow2(_)
Pow2(n) == IF n = 0 THEN 1 ELSE 2 * Pow2(n - 1)

IsAtempoStage(f) == f >= Micro \div 2 /\ f <= 2 * Micro

\* The product of a chain's stages is the ratio: the stages before the last
\* are all 2.0, and the last is the ratio halved that many times (to the last
\* digit kept), or all 0.5, and the last is the ratio doubled that many times.
ProductIs(chain, r) ==
    LET n    == Len(chain)
        last == chain[n]
    IN  \/ /\ \A j \in 1..(n - 1) : chain[j] = 2 * Micro
           /\ r - last * Pow2(n - 1) \in 0..(Pow2(n - 1) - 1)
        \/ /\ \A j \in 1..(n - 1) : chain[j] = Micro \div 2
           /\ last = r * Pow2(n - 1)

\* C25: for a ratio r > 0 _atempo_filters gives a chain of stages, each
\* within [0.5, 2.0], whose product is r up to the rounding of the last
\* stage: stages of exactly 2.0, or of exactly 0.5, followed by one leftover
\* stage, and a single stage when r is within [0.5, 2.0] already.
C25_AtempoChain ==
    Returned("_atempo_filters") =>
        LET chain == ret.value
        IN  /\ Len(chain) >= 1
            /\ \A j \in 1..Len(chain) : IsAtempoStage(chain[j])
            /\ ProductIs(chain, call.ratio)
            /\ IsAtempoStage(call.ratio) => Len(chain) = 1

\* A ratio below 1/8: three stages of 0.5 and the leftover.
C25_Witness ==
    /\ Returned("_atempo_filters")
    /\ call.ratio * 8 < Micro
    /\ Len(ret.value) >= 4
    /\ ret.value[1] = Micro \div 2

\* C29: _atempo_filters returns a chain for every ratio r > 0, and the ratio
\* _time_stretch_to_duration hands to it is always positive, a source clip or
\* a target of 0 ms counting as 1 ms.
C29_RatioPositive ==
    /\ (Returned("_atempo_filters") /\ call.ratio > 0) => ret.value # NoChain
    /\ (Returned("_time_stretch_to_duration") /\ ret.value.branch = "atempo") =>
          /\ ret.value.ratio > 0
          /\ ret.value.chain # NoChain
          /\ ret.value.ratio = (Max(call.input_ms, 1) * Micro) \div Max(call.target_ms, 1)

\* A source clip of 0 ms stretched towards a target 50 ms or more away.
C29_Witness ==
    /\ Returned("_time_stretch_to_duration")
    /\ call.input_ms = 0
    /\ ret.value.branch = "atempo"
    /\ ret.value.ratio > 0

\* C26: when the stretch step has failed, the aligner has handed back the
\* looped and trimmed clip, the run goes on to mixing with no error raised,
\* and a line reporting the degraded alignment of the section has been
\* printed.
C26_DegradedAlignmentLogged ==
    (pc = "mix" /\ ~render.stretched) =>
        /\ error = NoError
        /\ render.fitted_ms = render.processed_ms
        /\ File("section_fit", idx) \in tmp_files
        /\ \E l \in printed : l.msg = "alignment_degraded" /\ l.idx = idx

\* The intervals create_vocal_layers shifts the lead by for a section type.
harmony_intervals(section_type, num_harmonies) ==
    IF lower(section_type) \in { lower(Chorus), lower(Bridge) }
    THEN SubSeq(<< 3, 5, -3, 7 >>, 1, num_harmonies)
    ELSE IF lower(section_type) = << "v", "e", "r", "s", "e" >> /\ num_harmonies >= 1
         THEN << 5 >>
         ELSE << >>

\* The lengths of the harmony layers overlaid on the lead of the section
\* being rendered (none when the harmonies branch of line 529 is not taken).
HarmonyLengths ==
    IF add_harmonies /\ lower(sections[idx].label) \in { lower(Chorus), lower(Bridge) }
    THEN LET iv == harmony_intervals(sections[idx].label, NumHarmonies(sections[idx].label))
         IN  { pitch_shift(render.vocal_ms, iv[i]) : i \in 1..Len(iv) }
    ELSE {}

VocalsProcessed == pc \in { "fetch", "align", "mix" }

\* C27 (as stated): the enhanced vocal has the lead's duration, except that
\* a harmony layer of another duration cuts it to the shorter of the two.
C27_TruncatedToShorter ==
    VocalsProcessed =>
        \A h \in HarmonyLengths : render.processed_ms <= Min(render.vocal_ms, h)

\* C27: the enhanced vocal of a section always has exactly the duration of
\* the lead vocal, whatever the durations of the harmony layers laid on it.
C27_EnhancedKeepsLeadDuration ==
    VocalsProcessed => render.processed_ms = render.vocal_ms

\* A section was enhanced with a harmony layer shorter than its lead.
C27_Witness ==
    /\ VocalsProcessed
    /\ \E h \in HarmonyLengths : h < render.vocal_ms
    /\ render.processed_ms = render.vocal_ms

(***************************************************************************)
(* Progress.  generate_and_download runs on the calling thread; the two    *)
(* callables handed to the ThreadPoolExecutor(max_workers=2) each run on a *)
(* worker thread of their own.  A thread that can take a step takes it:    *)
(* the interpreter schedules every runnable thread, and a provider call    *)
(* under way returns or raises.                                            *)
(***************************************************************************)

VocalsWorker == VocalsBark \/ VocalsEdge

InstrumentalWorker == InstrumentalRun

MainThread ==
    \/ IntroGenerate \/ IntroFetch \/ LoopSkip \/ LoopEnd
    \/ SubmitVocals \/ SubmitInstrumental \/ AwaitVocals \/ AwaitInstrumental
    \/ ExecutorExit \/ ProcessVocals \/ FetchInstrumental \/ Align \/ Mix
    \/ OutroGenerate \/ OutroFetch \/ Stitch \/ Master \/ Export

\* Split, the first step of the calling thread, can be taken exactly while
\* pc = "start" and leaves it: its weak fairness is []<>(pc # "start").
Fairness ==
    /\ []<>(pc # "start")
    /\ WF_vars(MainThread)
    /\ WF_vars(VocalsWorker)
    /\ WF_vars(InstrumentalWorker)

\* Most stanzas of a lyric text given to a run whose progress is followed.
MaxLiveSections == 1

\* Songs of 0..MaxLiveSections stanzas, a song of two stanzas (the section
\* loop is gone through again with a new executor), a blank text and a text
\* of one unmarked line.
LiveLyrics ==
    { SongText(n) : n \in 0..MaxLiveSections }
        \cup { SongText(2), << " ", "\n" >>, << "l", "a" >> }

InitLive == Init /\ lyrics \in LiveLyrics

SpecLive == InitLive /\ [][Next]_vars /\ Fairness

Done == pc = "done"

RunFailed == pc = "failed"

\* The run is over in exactly one of the two ways.
Ended ==
    \/ Done /\ output_written /\ error = NoError
    \/ RunFailed /\ ~output_written /\ error # NoError

\* C30: with every thread making progress and every provider call coming
\* back, a run ends: it reaches Done, with the file written and no error, or
\* Failed, with an error and no file written, never both, and no step is
\* taken from either.
C30_RunEnds == <>(Ended /\ ~ENABLED Next)

\* A run over a song of several sections ended in Done, its file written,
\* with no step left to take.
C30_Witness ==
    /\ Done
    /\ output_written
    /\ Len(sections) >= 2
    /\ ~ENABLED Next

=============================================================================
